---- MODULE Spec2Model ----
(***************************************************************************)
(* A model of ExcelOperator (src/src/excel_operator.py): the static        *)
(* utility functions that enumerate workbook files, sort sheet names, and  *)
(* search / replace / resize through an automation-controlled spreadsheet  *)
(* application.  Text is a sequence of one-character strings; a workbook   *)
(* is a sequence of sheets; every function is one action that runs the     *)
(* whole call.                                                             *)
(***************************************************************************)
EXTENDS Integers, Sequences, FiniteSets, TLC

VARIABLES
    disk,        \* the workbook file: the sequence of sheets stored on disk
    apps,        \* the automation application instances started so far
    pc,          \* "idle" | "searched" | "done": the caller's position
    ret,         \* the last call: operation, arguments, outcome, COM call log
    lastSearch,  \* the last completed search call (read by the caller)
    tree         \* the directory tree under the search path

vars == <<disk, apps, pc, ret, lastSearch, tree>>

----------------------------------------------------------------------------
(* Bounds of the model *)

MaxTextLen == 2
MaxPatLen == 2

----------------------------------------------------------------------------
(* Text *)

NL == "\n"
BS == "\\"

Alphabet == {"a", "."}

StrUpTo(n) == UNION {[1..k -> Alphabet] : k \in 0..n}

foo == <<"f", "o", "o">>
bar == <<"b", "a", "r">>
abc == <<"a", "b", "c">>
foobar == <<"f", "o", "o", "b", "a", "r">>
abcxyz == <<"a", "b", "c", "x", "y", "z">>

\* Python: sub in text
Contains(sub, text) ==
    \E i \in 0..(Len(text) - Len(sub)) : SubSeq(text, i + 1, i + Len(sub)) = sub

RECURSIVE ReplaceFrom(_, _, _, _)
ReplaceFrom(text, old, new, i) ==
    IF i > Len(text) THEN <<>>
    ELSE IF i + Len(old) - 1 <= Len(text) /\ SubSeq(text, i, i + Len(old) - 1) = old
         THEN new \o ReplaceFrom(text, old, new, i + Len(old))
         ELSE <<text[i]>> \o ReplaceFrom(text, old, new, i + 1)

RECURSIVE Interleave(_, _)
Interleave(text, new) ==
    IF text = <<>> THEN new
    ELSE new \o <<Head(text)>> \o Interleave(Tail(text), new)

RECURSIVE ReplaceFirstFrom(_, _, _, _)
ReplaceFirstFrom(text, old, new, i) ==
    IF i > Len(text) THEN <<>>
    ELSE IF i + Len(old) - 1 <= Len(text) /\ SubSeq(text, i, i + Len(old) - 1) = old
         THEN new \o SubSeq(text, i + Len(old), Len(text))
         ELSE <<text[i]>> \o ReplaceFirstFrom(text, old, new, i + 1)

str_replace_first(text, old, new) ==
    IF old = <<>> THEN new \o text ELSE ReplaceFirstFrom(text, old, new, 1)

\* Python: text.replace(old, new); an empty old matches before every
\* character and at the end
str_replace(text, old, new) ==
    IF old = <<>> THEN Interleave(text, new) ELSE ReplaceFrom(text, old, new, 1)

----------------------------------------------------------------------------
(* Regular expressions: the fragment the alphabet can spell *)

SpecialChars == {".", NL, "^", "$", BS, "(", ")", "[", "]", "{", "}",
                 "?", "*", "+", "-", "|", "&", "~", "#", " "}

RECURSIVE re_escape(_)
re_escape(s) ==
    IF s = <<>> THEN <<>>
    ELSE (IF Head(s) \in SpecialChars THEN <<BS, Head(s)>> ELSE <<Head(s)>>)
         \o re_escape(Tail(s))

Lit(c) == [kind |-> "lit", ch |-> c]
AnyTok == [kind |-> "any", ch |-> ""]
BolTok == [kind |-> "bol", ch |-> ""]
EolTok == [kind |-> "eol", ch |-> ""]

RECURSIVE re_compile(_)
re_compile(p) ==
    IF p = <<>> THEN <<>>
    ELSE IF Head(p) = BS /\ Len(p) >= 2
         THEN <<Lit(p[2])>> \o re_compile(SubSeq(p, 3, Len(p)))
    ELSE IF Head(p) = "." THEN <<AnyTok>> \o re_compile(Tail(p))
    ELSE IF Head(p) = "^" THEN <<BolTok>> \o re_compile(Tail(p))
    ELSE IF Head(p) = "$" THEN <<EolTok>> \o re_compile(Tail(p))
    ELSE <<Lit(Head(p))>> \o re_compile(Tail(p))

\* the position where a match of toks that starts after pos characters of
\* text ends, or -1 when there is none
RECURSIVE MatchEnd(_, _, _)
MatchEnd(toks, text, pos) ==
    IF toks = <<>> THEN pos
    ELSE LET k == Head(toks) IN
         IF k.kind = "bol"
         THEN IF pos = 0 THEN MatchEnd(Tail(toks), text, pos) ELSE -1
         ELSE IF k.kind = "eol"
         THEN IF pos = Len(text) \/ (pos = Len(text) - 1 /\ text[Len(text)] = NL)
              THEN MatchEnd(Tail(toks), text, pos) ELSE -1
         ELSE IF pos >= Len(text) THEN -1
         ELSE IF k.kind = "any"
         THEN IF text[pos + 1] /= NL THEN MatchEnd(Tail(toks), text, pos + 1) ELSE -1
         ELSE IF text[pos + 1] = k.ch THEN MatchEnd(Tail(toks), text, pos + 1) ELSE -1

\* pattern.search(text)
re_search(toks, text) == \E pos \in 0..Len(text) : MatchEnd(toks, text, pos) /= -1

\* pattern.sub(repl, text): leftmost non-overlapping matches, left to right
RECURSIVE SubFrom(_, _, _, _)
SubFrom(toks, repl, text, pos) ==
    LET e == MatchEnd(toks, text, pos) IN
    IF e = -1
    THEN IF pos >= Len(text) THEN <<>>
         ELSE <<text[pos + 1]>> \o SubFrom(toks, repl, text, pos + 1)
    ELSE IF e > pos THEN repl \o SubFrom(toks, repl, text, e)
    ELSE IF pos >= Len(text) THEN repl
    ELSE repl \o <<text[pos + 1]>> \o SubFrom(toks, repl, text, pos + 1)

re_sub(toks, repl, text) == SubFrom(toks, repl, text, 0)

----------------------------------------------------------------------------
(* Workbooks as the automation interface presents them *)

None == [kind |-> "none"]
Str(s) == [kind |-> "str", s |-> s]
Num(n) == [kind |-> "num", n |-> n]

\* str(x) of a float cell value: 1.0 -> "1.0"
FloatStr(n) == <<(<<"0", "1", "2", "3">>)[n + 1], ".", "0">>

\* str(cell.Value) if cell.Value is not None else ""
Stringify(v) ==
    IF v.kind = "none" THEN <<>>
    ELSE IF v.kind = "num" THEN FloatStr(v.n)
    ELSE v.s

\* chr(n) for the code points the column letters use
Chr(n) == (<<"A", "B", "C", "D", "E", "F", "G", "H", "I", "J", "K", "L", "M",
             "N", "O", "P", "Q", "R", "S", "T", "U", "V", "W", "X", "Y", "Z",
             "[">>)[n - 64]

NumRows(sheet) == Len(sheet.rows)
NumCols(sheet) == IF sheet.rows = <<>> THEN 0 ELSE Len(sheet.rows[1])

CellItem(si, r, c) == [si |-> si, kind |-> "cell", r |-> r, c |-> c]
ShapeItem(si, k) == [si |-> si, kind |-> "shape", r |-> k, c |-> 0]

\* one sheet: the used range in row-major order, then the shapes
SheetItems(sheet, si) ==
    [n \in 1..(NumRows(sheet) * NumCols(sheet)) |->
        CellItem(si, ((n - 1) \div NumCols(sheet)) + 1, ((n - 1) % NumCols(sheet)) + 1)]
    \o [k \in 1..Len(sheet.shapes) |-> ShapeItem(si, k)]

\* a traversal that visits a sheet's shapes before its cells
SheetItemsShapesFirst(sheet, si) ==
    [k \in 1..Len(sheet.shapes) |-> ShapeItem(si, k)]
    \o [n \in 1..(NumRows(sheet) * NumCols(sheet)) |->
        CellItem(si, ((n - 1) \div NumCols(sheet)) + 1, ((n - 1) % NumCols(sheet)) + 1)]

RECURSIVE SearchItemsFrom(_, _)
SearchItemsFrom(book, si) ==
    IF si > Len(book) THEN <<>>
    ELSE SheetItems(book[si], si) \o SearchItemsFrom(book, si + 1)

\* for sheet in wb.Sheets: cells of UsedRange.Rows, then sheet.Shapes
SearchItems(book) == SearchItemsFrom(book, 1)

RECURSIVE ReplaceItemsFrom(_, _)
ReplaceItemsFrom(book, si) ==
    IF si > Len(book) THEN <<>>
    ELSE SheetItems(book[si], si) \o ReplaceItemsFrom(book, si + 1)

RECURSIVE ReplaceItemsShapesFirstFrom(_, _)
ReplaceItemsShapesFirstFrom(book, si) ==
    IF si > Len(book) THEN <<>>
    ELSE SheetItemsShapesFirst(book[si], si) \o ReplaceItemsShapesFirstFrom(book, si + 1)

ReplaceItemsShapesFirst(book) == ReplaceItemsShapesFirstFrom(book, 1)

ReplaceItems(book) == ReplaceItemsFrom(book, 1)

CellValue(book, it) == book[it.si].rows[it.r][it.c]
ShapeOf(book, it) == book[it.si].shapes[it.r]

\* (col_letter, cell.Row) of f"{col_letter}{cell.Row}"
CellLocation(sheet, it) ==
    <<Chr((sheet.first.col + it.c - 1) + 64), sheet.first.row + it.r - 1>>

\* f"図形: {shape_name}"
ShapeLocation(shape) == <<"shape", shape.Name>>

----------------------------------------------------------------------------
(* search_string_in_book *)

\* pattern: the compiled search string, a literal between anchors when
\* exact_match is set
SearchPattern(search_string, exact_match, use_regex) ==
    IF use_regex
    THEN IF exact_match
         THEN re_compile(<<"^">> \o re_escape(search_string) \o <<"$">>)
         ELSE re_compile(search_string)
    ELSE <<>>

SearchCellMatchesSubstringOnly(pattern, cell_value, search_string, exact_match, use_regex) ==
    IF use_regex THEN re_search(pattern, cell_value)
    ELSE Contains(search_string, cell_value)

SearchCellMatches(pattern, cell_value, search_string, exact_match, use_regex) ==
    IF use_regex THEN re_search(pattern, cell_value)
    ELSE IF exact_match THEN cell_value = search_string
    ELSE Contains(search_string, cell_value)

SearchShapeMatches(pattern, shape_text, search_string, exact_match, use_regex) ==
    IF use_regex THEN re_search(pattern, shape_text)
    ELSE IF exact_match THEN shape_text = search_string
    ELSE Contains(search_string, shape_text)

\* one visited cell or shape: the workbook in the application, the records
\* and the COM writes after it
SearchStep(acc, it, pattern, search_string, exact_match, use_regex) ==
    IF it.kind = "cell"
    THEN LET cell_value == Stringify(CellValue(acc.mem, it)) IN
         IF SearchCellMatches(pattern, cell_value, search_string, exact_match, use_regex)
         THEN [acc EXCEPT !.results = Append(@,
                 <<acc.mem[it.si].Name, CellLocation(acc.mem[it.si], it), cell_value>>)]
         ELSE acc
    ELSE LET shape == ShapeOf(acc.mem, it)
             shape_text == shape.Text
         IN IF SearchShapeMatches(pattern, shape_text, search_string, exact_match, use_regex)
            THEN [acc EXCEPT !.results = Append(@,
                    <<acc.mem[it.si].Name, ShapeLocation(shape), shape_text>>)]
            ELSE acc

RECURSIVE SearchScan(_, _, _, _, _, _, _)
SearchScan(acc, items, i, pattern, search_string, exact_match, use_regex) ==
    IF i > Len(items) THEN acc
    ELSE SearchScan(
            SearchStep(acc, items[i], pattern, search_string, exact_match, use_regex),
            items, i + 1, pattern, search_string, exact_match, use_regex)

SearchCloseSaving == TRUE

\* the SaveChanges argument of wb.Close(False)
SearchClose == FALSE

CloseLog(save) == IF save THEN "Close(True)" ELSE "Close(False)"

\* an application instance that was started and not told to quit
Running == [quit |-> FALSE, wbOpen |-> FALSE]

search_string_in_book(book, search_string, exact_match, use_regex, openFails) ==
    IF openFails
    THEN [status |-> "raised", value |-> <<>>, log |-> <<"Dispatch", "Open">>,
          disk |-> book, app |-> Running]
    ELSE LET pattern == SearchPattern(search_string, exact_match, use_regex)
             acc == SearchScan([mem |-> book, results |-> <<>>,
                                log |-> <<"Dispatch", "Open">>],
                               SearchItems(book), 1, pattern, search_string,
                               exact_match, use_regex)
         IN [status |-> "returned", value |-> acc.results,
             log |-> acc.log \o <<CloseLog(SearchClose), "Quit">>,
             disk |-> IF SearchClose THEN acc.mem ELSE book,
             app |-> [quit |-> TRUE, wbOpen |-> FALSE]]

----------------------------------------------------------------------------
(* replace_string_in_book *)

ReplacePattern(search_string, exact_match, use_regex) ==
    IF use_regex
    THEN IF exact_match
         THEN re_compile(<<"^">> \o re_escape(search_string) \o <<"$">>)
         ELSE re_compile(search_string)
    ELSE <<>>

ReplaceCellNewValueFirstOnly(pattern, cell_value, search_string, replace_string, exact_match, use_regex) ==
    IF use_regex
    THEN IF re_search(pattern, cell_value)
         THEN re_sub(pattern, replace_string, cell_value) ELSE cell_value
    ELSE IF exact_match
    THEN IF cell_value = search_string THEN replace_string ELSE cell_value
    ELSE IF Contains(search_string, cell_value)
         THEN str_replace_first(cell_value, search_string, replace_string)
         ELSE cell_value

\* new_value of a cell
ReplaceCellNewValue(pattern, cell_value, search_string, replace_string, exact_match, use_regex) ==
    IF use_regex
    THEN IF re_search(pattern, cell_value)
         THEN re_sub(pattern, replace_string, cell_value) ELSE cell_value
    ELSE IF exact_match
    THEN IF cell_value = search_string THEN replace_string ELSE cell_value
    ELSE IF Contains(search_string, cell_value)
         THEN str_replace(cell_value, search_string, replace_string)
         ELSE cell_value

\* new_shape_text of a shape
ReplaceShapeNewValue(pattern, shape_text, search_string, replace_string, exact_match, use_regex) ==
    IF use_regex
    THEN IF re_search(pattern, shape_text)
         THEN re_sub(pattern, replace_string, shape_text) ELSE shape_text
    ELSE IF exact_match
    THEN IF shape_text = search_string THEN replace_string ELSE shape_text
    ELSE IF Contains(search_string, shape_text)
         THEN str_replace(shape_text, search_string, replace_string)
         ELSE shape_text

CellChangedAlways(new_value, cell_value) == TRUE

\* if new_value != cell_value
CellChanged(new_value, cell_value) == new_value /= cell_value

\* if new_shape_text != shape_text
ShapeChanged(new_shape_text, shape_text) == new_shape_text /= shape_text

\* one visited cell or shape: the workbook in the application, the records
\* and the COM writes after it
ReplaceStep(acc, it, pattern, search_string, replace_string, exact_match, use_regex) ==
    IF it.kind = "cell"
    THEN LET cell_value == Stringify(CellValue(acc.mem, it))
             new_value == ReplaceCellNewValue(pattern, cell_value, search_string,
                                              replace_string, exact_match, use_regex)
         IN IF CellChanged(new_value, cell_value)
            THEN [mem |-> [acc.mem EXCEPT ![it.si].rows[it.r][it.c] = Str(new_value)],
                  results |-> Append(acc.results,
                      <<acc.mem[it.si].Name, CellLocation(acc.mem[it.si], it),
                        cell_value, new_value>>),
                  log |-> Append(acc.log, "SetCell")]
            ELSE acc
    ELSE LET shape == ShapeOf(acc.mem, it)
             shape_text == shape.Text
             new_shape_text == ReplaceShapeNewValue(pattern, shape_text, search_string,
                                                    replace_string, exact_match, use_regex)
         IN IF ShapeChanged(new_shape_text, shape_text)
            THEN [mem |-> [acc.mem EXCEPT ![it.si].shapes[it.r].Text = new_shape_text],
                  results |-> Append(acc.results,
                      <<acc.mem[it.si].Name, ShapeLocation(shape),
                        shape_text, new_shape_text>>),
                  log |-> Append(acc.log, "SetShape")]
            ELSE acc

RECURSIVE ReplaceScan(_, _, _, _, _, _, _, _)
ReplaceScan(acc, items, i, pattern, search_string, replace_string, exact_match, use_regex) ==
    IF i > Len(items) THEN acc
    ELSE ReplaceScan(
            ReplaceStep(acc, items[i], pattern, search_string, replace_string,
                        exact_match, use_regex),
            items, i + 1, pattern, search_string, replace_string, exact_match, use_regex)

ReplaceOpenFailureRaises(book) ==
    [status |-> "raised", value |-> <<>>, log |-> <<"Dispatch", "Open">>,
     disk |-> book, app |-> Running]

\* except Exception as e: print(...); return []
ReplaceOpenFailure(book) ==
    [status |-> "returned", value |-> <<>>, log |-> <<"Dispatch", "Open">>,
     disk |-> book, app |-> Running]

replace_string_in_book(book, search_string, replace_string, exact_match, use_regex, openFails, saveFails) ==
    IF openFails THEN ReplaceOpenFailure(book)
    ELSE LET pattern == ReplacePattern(search_string, exact_match, use_regex)
             acc == ReplaceScan([mem |-> book, results |-> <<>>,
                                 log |-> <<"Dispatch", "Open">>],
                                ReplaceItems(book), 1, pattern, search_string,
                                replace_string, exact_match, use_regex)
         IN IF saveFails
            THEN [status |-> "raised", value |-> <<>>, log |-> Append(acc.log, "Save"),
                  disk |-> book, app |-> [quit |-> FALSE, wbOpen |-> TRUE]]
            ELSE [status |-> "returned", value |-> acc.results,
                  log |-> acc.log \o <<"Save", CloseLog(FALSE), "Quit">>,
                  disk |-> acc.mem,
                  app |-> [quit |-> TRUE, wbOpen |-> FALSE]]

----------------------------------------------------------------------------
(* set_grid_size *)

\* row_size = pixel_size * 0.75 and col_size = pixel_size * 0.14, in
\* hundredths of a unit
RowRatio == 75
ColRatio == 14

HasSheet(book, sheet_name) == \E i \in 1..Len(book) : book[i].Name = sheet_name
SheetIndex(book, sheet_name) == CHOOSE i \in 1..Len(book) : book[i].Name = sheet_name

GridOpenFailure(book) ==
    [status |-> "returned", value |-> <<>>, log |-> <<"Dispatch", "Open">>,
     disk |-> book, app |-> Running]

set_grid_size(book, sheet_name, pixel_size, openFails, saveFails) ==
    IF openFails THEN GridOpenFailure(book)
    ELSE IF ~HasSheet(book, sheet_name)
    THEN [status |-> "raised", value |-> <<>>,
          log |-> <<"Dispatch", "Open", "Worksheets">>,
          disk |-> book, app |-> [quit |-> FALSE, wbOpen |-> TRUE]]
    ELSE LET i == SheetIndex(book, sheet_name)
             mem == [book EXCEPT ![i].RowHeight = pixel_size * RowRatio,
                                 ![i].ColumnWidth = pixel_size * ColRatio]
             log == <<"Dispatch", "Open", "Worksheets", "RowHeight", "ColumnWidth",
                      CloseLog(TRUE)>>
         IN IF saveFails
            THEN [status |-> "returned", value |-> <<>>, log |-> log,
                  disk |-> book, app |-> [quit |-> FALSE, wbOpen |-> TRUE]]
            ELSE [status |-> "returned", value |-> <<>>, log |-> log,
                  disk |-> mem, app |-> [quit |-> FALSE, wbOpen |-> FALSE]]

----------------------------------------------------------------------------
(* sort_sheet *)

UpperCase == <<"A", "B", "C", "D", "E", "F", "G", "H", "I", "J", "K", "L", "M",
               "N", "O", "P", "Q", "R", "S", "T", "U", "V", "W", "X", "Y", "Z">>
LowerCase == <<"a", "b", "c", "d", "e", "f", "g", "h", "i", "j", "k", "l", "m",
               "n", "o", "p", "q", "r", "s", "t", "u", "v", "w", "x", "y", "z">>

\* ord(c): upper-case letters come before lower-case letters
Ord(c) ==
    IF \E i \in 1..Len(UpperCase) : UpperCase[i] = c
    THEN 64 + (CHOOSE i \in 1..Len(UpperCase) : UpperCase[i] = c)
    ELSE IF \E i \in 1..Len(LowerCase) : LowerCase[i] = c
    THEN 96 + (CHOOSE i \in 1..Len(LowerCase) : LowerCase[i] = c)
    ELSE 0

LowerChar(c) ==
    IF \E i \in 1..Len(UpperCase) : UpperCase[i] = c
    THEN LowerCase[CHOOSE i \in 1..Len(UpperCase) : UpperCase[i] = c]
    ELSE c

\* order.lower()
str_lower(s) == [i \in 1..Len(s) |-> LowerChar(s[i])]

\* Python: x < y on str
RECURSIVE StrLess(_, _)
StrLess(x, y) ==
    IF y = <<>> THEN FALSE
    ELSE IF x = <<>> THEN TRUE
    ELSE IF Head(x) = Head(y) THEN StrLess(Tail(x), Tail(y))
    ELSE Ord(Head(x)) < Ord(Head(y))

\* x goes after every element that does not come after it (stable)
RECURSIVE InsertSorted(_, _, _)
InsertSorted(x, s, reverse) ==
    IF s = <<>> THEN <<x>>
    ELSE IF (IF reverse THEN StrLess(Head(s), x) ELSE StrLess(x, Head(s)))
         THEN <<x>> \o s
         ELSE <<Head(s)>> \o InsertSorted(x, Tail(s), reverse)

RECURSIVE SortFrom(_, _, _)
SortFrom(names, i, reverse) ==
    IF i = 0 THEN <<>>
    ELSE InsertSorted(names[i], SortFrom(names, i - 1, reverse), reverse)

sorted_ascending_only(names, reverse) == SortFrom(names, Len(names), FALSE)

\* sorted(names, reverse=reverse)
sorted(names, reverse) == SortFrom(names, Len(names), reverse)

asc == <<"a", "s", "c">>
desc == <<"d", "e", "s", "c">>

\* wb.sheetnames
sheetnames(book) == [i \in 1..Len(book) |-> book[i].Name]

sort_sheet(book, order) ==
    LET lowered == str_lower(order) IN
    IF lowered \notin {asc, desc}
    THEN [status |-> "raised", value |-> <<>>, log |-> <<>>, disk |-> book,
          app |-> Running]
    ELSE [status |-> "returned", value |-> sorted(sheetnames(book), lowered = desc),
          log |-> <<"load_workbook">>, disk |-> book, app |-> Running]

----------------------------------------------------------------------------
(* get_files_in_path *)

xlsx == <<".", "x", "l", "s", "x">>
xlsm == <<".", "x", "l", "s", "m">>
tempMarker == <<"~", "$">>

\* f.endswith(ext)
EndsWith(f, ext) ==
    Len(f) >= Len(ext) /\ SubSeq(f, Len(f) - Len(ext) + 1, Len(f)) = ext

\* f.startswith(prefix)
StartsWith(f, prefix) == Len(f) >= Len(prefix) /\ SubSeq(f, 1, Len(prefix)) = prefix

valid_extensions(xlsm_flg) == IF xlsm_flg THEN {xlsx, xlsm} ELSE {xlsx}

RECURSIVE Flatten(_)
Flatten(ss) == IF ss = <<>> THEN <<>> ELSE Head(ss) \o Flatten(Tail(ss))

\* os.listdir(path): the names of the directory's entries, subdirectories
\* as well as files
listdir(node) == [i \in 1..Len(node.dirs) |-> node.dirs[i].name] \o node.files

\* os.walk(top): (root, dirs, files) of top and of every directory below it
RECURSIVE walk(_, _)
walk(node, path) ==
    << [root |-> path, files |-> node.files] >>
    \o Flatten([i \in 1..Len(node.dirs) |->
                  walk(node.dirs[i].node, Append(path, node.dirs[i].name))])

search_method(node, path, sub_dir_flg) ==
    IF sub_dir_flg THEN walk(node, path)
    ELSE << [root |-> path, files |-> listdir(node)] >>

\* any(f.endswith(ext) for ext in valid_extensions) and not f.startswith('~$')
IsTarget(f, xlsm_flg) ==
    /\ \E ext \in valid_extensions(xlsm_flg) : EndsWith(f, ext)
    /\ ~StartsWith(f, tempMarker)

\* os.path.join(root, f) for the kept names of one (root, files)
JoinKept(entry, xlsm_flg) ==
    LET kept == SelectSeq(entry.files, LAMBDA f : IsTarget(f, xlsm_flg))
    IN [i \in 1..Len(kept) |-> Append(entry.root, kept[i])]

get_files_in_path(node, path, sub_dir_flg, xlsm_flg) ==
    LET sm == search_method(node, path, sub_dir_flg)
    IN Flatten([i \in 1..Len(sm) |-> JoinKept(sm[i], xlsm_flg)])

----------------------------------------------------------------------------
(* The inputs: workbooks, directory trees, arguments *)

ExampleTexts == {foobar, abcxyz, abc, <<NL>>, <<"a", NL>>}
Texts == StrUpTo(MaxTextLen) \cup ExampleTexts
CellValues == {None, Num(1)} \cup {Str(s) : s \in Texts}

SearchStrings == StrUpTo(MaxPatLen) \cup {foo, abc, <<NL>>}
ReplaceStrings == {<<>>, <<"a">>, bar}
PixelSizes == {20, 24}
Orders == {asc, desc, <<"A", "S", "C">>, <<"D", "e", "s", "c">>, <<"u", "p">>, <<>>}

Sheet(name, first, rows, shapes) ==
    [Name |-> name, first |-> first, rows |-> rows, shapes |-> shapes,
     RowHeight |-> 1500, ColumnWidth |-> 843]

Shape(name, text) == [Name |-> name, Text |-> text]

Book(v, shape_text) ==
    << Sheet(<<"b">>, [row |-> 1, col |-> 1],
             << <<v, None>>, <<Num(1), Str(abc)>> >>,
             << Shape("T1", shape_text) >>),
       Sheet(<<"B">>, [row |-> 2, col |-> 2],
             << <<Str(foobar), Str(<<"a", ".">>)>> >>,
             << Shape("T1", abcxyz), Shape("T2", <<"a">>) >>) >>

DefaultBook == Book(None, <<"a", ".">>)

SheetNamePool == {<<"B">>, <<"a">>, <<"a", "b">>, <<"A">>}

NamedBook(names) ==
    [i \in 1..Len(names) |->
        Sheet(names[i], [row |-> 1, col |-> 1], << <<Str(<<"a">>)>> >>, <<>>)]

Books ==
    {Book(v, <<"a", ".">>) : v \in CellValues}
    \cup {Book(None, s) : s \in Texts}

\* sheet names are unique within a workbook
NamedBooks ==
    {NamedBook(names) : names \in
        UNION {{p \in [1..n -> SheetNamePool] :
                    \A i, j \in 1..n : i /= j => p[i] /= p[j]} : n \in 1..3}}

f_xlsx == <<"a">> \o xlsx
f_xlsm == <<"b">> \o xlsm
f_temp == tempMarker \o <<"a">> \o xlsx
f_text == <<"c", ".", "t", "x", "t">>
FilePool == <<f_xlsx, f_xlsm, f_temp, f_text>>

Pick(pool, S) == SelectSeq(pool, LAMBDA f : f \in S)

Leaf(files) == [files |-> files, dirs |-> <<>>]
Dir(name, node) == [name |-> name, node |-> node]

SubDirs ==
    {<<>>}
    \cup {<< Dir(<<"s", "u", "b">>, Leaf(Pick(FilePool, S))) >> :
            S \in SUBSET {f_xlsx, f_xlsm, f_temp}}
    \cup {<< Dir(<<"s", "u", "b">>,
                 [files |-> Pick(FilePool, S),
                  dirs |-> << Dir(<<"d", "e", "e", "p">>, Leaf(<<f_xlsx>>)) >>]) >> :
            S \in SUBSET {f_xlsx, f_xlsm, f_temp}}

\* a subdirectory whose own name ends with a target extension
NamedLikeWorkbook == << Dir(<<"d">> \o xlsx, Leaf(<<f_xlsm>>)) >>

Trees ==
    {[files |-> Pick(FilePool, S), dirs |-> d \o e] :
        S \in SUBSET {f_xlsx, f_xlsm, f_temp, f_text},
        d \in SubDirs,
        e \in {<<>>, NamedLikeWorkbook}}

DefaultTree == [files |-> FilePool, dirs |-> <<>>]

\* the search path, as its sequence of components
search_path == << <<"r", "o", "o", "t">> >>

----------------------------------------------------------------------------
(* The state machine *)

NoArgs == [none |-> TRUE]

Start(books, trees) ==
    /\ disk \in books
    /\ tree \in trees
    /\ apps = <<>>
    /\ pc = "idle"
    /\ ret = [op |-> "none", args |-> NoArgs, status |-> "none", value |-> <<>>,
              log |-> <<>>]
    /\ lastSearch = [valid |-> FALSE, args |-> NoArgs, value |-> <<>>]

Search ==
    /\ pc = "idle"
    /\ \E s \in SearchStrings, exact_match \in BOOLEAN, use_regex \in BOOLEAN,
          openFails \in BOOLEAN :
          LET o == search_string_in_book(disk, s, exact_match, use_regex, openFails)
              a == [search_string |-> s, exact_match |-> exact_match,
                    use_regex |-> use_regex]
          IN /\ disk' = o.disk
             /\ apps' = Append(apps, o.app)
             /\ ret' = [op |-> "search", args |-> a, status |-> o.status,
                        value |-> o.value, log |-> o.log]
             /\ pc' = IF o.status = "returned" THEN "searched" ELSE "done"
             /\ lastSearch' = IF o.status = "returned"
                              THEN [valid |-> TRUE, args |-> a, value |-> o.value]
                              ELSE lastSearch
    /\ UNCHANGED tree

Replace ==
    /\ pc \in {"idle", "searched"}
    /\ \E s \in SearchStrings, r \in ReplaceStrings, exact_match \in BOOLEAN,
          use_regex \in BOOLEAN, openFails \in BOOLEAN, saveFails \in BOOLEAN :
          /\ pc = "searched" =>
                /\ s = lastSearch.args.search_string
                /\ exact_match = lastSearch.args.exact_match
                /\ use_regex = lastSearch.args.use_regex
          /\ openFails => ~saveFails
          /\ LET o == replace_string_in_book(disk, s, r, exact_match, use_regex,
                                             openFails, saveFails)
             IN /\ disk' = o.disk
                /\ apps' = Append(apps, o.app)
                /\ ret' = [op |-> "replace",
                           args |-> [search_string |-> s, replace_string |-> r,
                                     exact_match |-> exact_match,
                                     use_regex |-> use_regex,
                                     openFails |-> openFails],
                           status |-> o.status, value |-> o.value, log |-> o.log]
    /\ pc' = "done"
    /\ UNCHANGED <<tree, lastSearch>>

SetGridSize ==
    /\ pc = "idle"
    /\ \E sheet_name \in {disk[i].Name : i \in 1..Len(disk)} \cup {<<"Z">>},
          pixel_size \in PixelSizes, openFails \in BOOLEAN, saveFails \in BOOLEAN :
          /\ openFails => ~saveFails
          /\ LET o == set_grid_size(disk, sheet_name, pixel_size, openFails, saveFails)
             IN /\ disk' = o.disk
                /\ apps' = Append(apps, o.app)
                /\ ret' = [op |-> "set_grid_size",
                           args |-> [sheet_name |-> sheet_name,
                                     pixel_size |-> pixel_size,
                                     openFails |-> openFails,
                                     saveFails |-> saveFails],
                           status |-> o.status, value |-> o.value, log |-> o.log]
    /\ pc' = "done"
    /\ UNCHANGED <<tree, lastSearch>>

SortSheet ==
    /\ pc = "idle"
    /\ \E order \in Orders :
          LET o == sort_sheet(disk, order)
          IN /\ disk' = o.disk
             /\ ret' = [op |-> "sort_sheet", args |-> [order |-> order],
                        status |-> o.status, value |-> o.value, log |-> o.log]
    /\ pc' = "done"
    /\ UNCHANGED <<tree, apps, lastSearch>>

GetFiles ==
    /\ pc = "idle"
    /\ \E sub_dir_flg \in BOOLEAN, xlsm_flg \in BOOLEAN :
          ret' = [op |-> "get_files_in_path",
                  args |-> [sub_dir_flg |-> sub_dir_flg, xlsm_flg |-> xlsm_flg],
                  status |-> "returned",
                  value |-> get_files_in_path(tree, search_path, sub_dir_flg, xlsm_flg),
                  log |-> <<>>]
    /\ pc' = "done"
    /\ UNCHANGED <<disk, tree, apps, lastSearch>>

Init == Start(Books, {DefaultTree})

Next == Search \/ Replace \/ SetGridSize \/ SortSheet \/ GetFiles

Spec == Init /\ [][Next]_vars

\* sort_sheet over workbooks whose sheet names vary
InitSort == Start(NamedBooks, {DefaultTree})

NextSort == SortSheet

SpecSort == InitSort /\ [][NextSort]_vars

\* get_files_in_path over directory trees that vary
InitFiles == Start({DefaultBook}, Trees)

NextFiles == GetFiles

SpecFiles == InitFiles /\ [][NextFiles]_vars

----------------------------------------------------------------------------
(* Vocabulary of the properties *)

Elems(seq) == {seq[i] : i \in 1..Len(seq)}

AllItems(book) ==
    UNION {{CellItem(si, r, c) : r \in 1..NumRows(book[si]), c \in 1..NumCols(book[si])}
           \cup {ShapeItem(si, k) : k \in 1..Len(book[si].shapes)} : si \in 1..Len(book)}

\* what the automation interface holds for a cell (its Value) or a shape
\* (its text)
Raw(book, it) ==
    IF it.kind = "cell" THEN CellValue(book, it) ELSE Str(ShapeOf(book, it).Text)

\* the text the scan compares: None reads as the empty string
TextOf(book, it) ==
    IF it.kind = "cell"
    THEN (IF CellValue(book, it) = None THEN <<>> ELSE Stringify(CellValue(book, it)))
    ELSE ShapeOf(book, it).Text

LocationOf(book, it) ==
    IF it.kind = "cell" THEN CellLocation(book[it.si], it)
    ELSE ShapeLocation(ShapeOf(book, it))

\* sub occurs in text: text = prefix . sub . suffix
Occurs(sub, text) ==
    \E k \in 0..Len(text) :
        /\ k + Len(sub) <= Len(text)
        /\ text = SubSeq(text, 1, k) \o sub \o SubSeq(text, k + Len(sub) + 1, Len(text))

RecordsAt(records, name, loc) == {r \in Elems(records) : r[1] = name /\ r[2] = loc}

WriteCalls == {"SetCell", "SetShape", "RowHeight", "ColumnWidth", "Save",
               "Close(True)", "Close(False)"}

Count(log, calls) == Cardinality({i \in 1..Len(log) : log[i] \in calls})

AutomationOps == {"search", "replace", "set_grid_size"}

----------------------------------------------------------------------------
(* C1: every call of search_string_in_book, replace_string_in_book and     *)
(* set_grid_size that returns to its caller has released the application   *)
(* instance it started: Quit was called on it and no workbook it opened is *)
(* still open.                                                             *)
C1_ReleasedOnReturn ==
    (ret.op \in AutomationOps /\ ret.status = "returned") =>
        /\ apps[Len(apps)].quit
        /\ ~apps[Len(apps)].wbOpen
        /\ \E i \in 1..Len(ret.log) : ret.log[i] = "Quit"

(* C2: search_string_in_book is read-only: the scan writes no cell value   *)
(* and no shape text, Save is never called, the workbook is closed without *)
(* saving, and the workbook content after the call equals the content      *)
(* before it.                                                              *)
C2_SearchReadOnly ==
    [][(pc = "idle" /\ ret'.op = "search" /\ ret'.status = "returned") =>
          /\ disk' = disk
          /\ Count(ret'.log, {"SetCell", "SetShape", "Save", "Close(True)"}) = 0
          /\ Count(ret'.log, {"Close(False)"}) = 1]_vars

C2_Witness ==
    /\ ret.op = "search" /\ ret.status = "returned"
    /\ ret.args.use_regex /\ ~ret.args.exact_match
    /\ Len(ret.value) >= 3

(* C3: in replace_string_in_book, for every cell and every shape, the text *)
(* is overwritten iff the computed new value differs from the original     *)
(* text, a record (sheet, location, old, new) is appended iff the text was *)
(* overwritten, and a cell or shape the search string does not match keeps *)
(* its original value and produces no record.                              *)
C3_WriteIffChanged ==
    [][(pc # "done" /\ ret'.op = "replace" /\ ret'.status = "returned"
        /\ ~ret'.args.openFails) =>
          LET a == ret'.args
              pattern == ReplacePattern(a.search_string, a.exact_match, a.use_regex)
              Old(it) == TextOf(disk, it)
              Computed(it) ==
                  IF it.kind = "cell"
                  THEN ReplaceCellNewValue(pattern, Old(it), a.search_string,
                                           a.replace_string, a.exact_match, a.use_regex)
                  ELSE ReplaceShapeNewValue(pattern, Old(it), a.search_string,
                                            a.replace_string, a.exact_match, a.use_regex)
              Matched(it) ==
                  IF a.use_regex THEN re_search(pattern, Old(it))
                  ELSE IF a.exact_match THEN Old(it) = a.search_string
                  ELSE Occurs(a.search_string, Old(it))
              At(it) == RecordsAt(ret'.value, disk[it.si].Name, LocationOf(disk, it))
              changed == {it \in AllItems(disk) : Computed(it) # Old(it)}
          IN /\ \A it \in AllItems(disk) :
                   /\ (it \in changed) =>
                         /\ Raw(disk', it) = Str(Computed(it))
                         /\ At(it) = {<<disk[it.si].Name, LocationOf(disk, it),
                                        Old(it), Computed(it)>>}
                   /\ (it \notin changed) =>
                         /\ Raw(disk', it) = Raw(disk, it)
                         /\ At(it) = {}
                   /\ ~Matched(it) => (Raw(disk', it) = Raw(disk, it) /\ At(it) = {})
             /\ Len(ret'.value) = Cardinality(changed)
             /\ Count(ret'.log, {"SetCell", "SetShape"}) = Cardinality(changed)]_vars

C3_Witness ==
    /\ ret.op = "replace" /\ ret.status = "returned" /\ ~ret.args.openFails
    /\ ret.args.search_string = <<"a">> /\ ret.args.replace_string = <<>>
    /\ ~ret.args.use_regex /\ ~ret.args.exact_match
    /\ Len(ret.value) >= 2
    /\ Len(ret.value) < Cardinality(AllItems(disk))

(* C5: with use_regex off, search_string_in_book returns a record for a    *)
(* cell or shape iff (exact_match off) the search string is a substring of *)
(* its stringified text, None read as the empty string, or (exact_match    *)
(* on) its stringified text equals the search string; "abc" matches        *)
(* "abcxyz" only with exact_match off and matches "abc" with it on.        *)
C5_LiteralSearch ==
    (ret.op = "search" /\ ret.status = "returned" /\ ~ret.args.use_regex) =>
        LET s == ret.args.search_string
            Expected(it) ==
                IF ret.args.exact_match THEN TextOf(disk, it) = s
                ELSE Occurs(s, TextOf(disk, it))
            At(it) == RecordsAt(ret.value, disk[it.si].Name, LocationOf(disk, it))
        IN /\ \A it \in AllItems(disk) :
                 At(it) = IF Expected(it)
                          THEN {<<disk[it.si].Name, LocationOf(disk, it), TextOf(disk, it)>>}
                          ELSE {}
           /\ Len(ret.value) = Cardinality({it \in AllItems(disk) : Expected(it)})
           /\ \A r \in Elems(ret.value) :
                 (s = abc /\ ret.args.exact_match) => r[3] = abc

C5_Witness ==
    /\ ret.op = "search" /\ ret.status = "returned" /\ ~ret.args.use_regex
    /\ ret.args.exact_match /\ ret.args.search_string = abc
    /\ \E it \in AllItems(disk) : it.kind = "cell" /\ TextOf(disk, it) = abcxyz
    /\ \E r \in Elems(ret.value) : r[3] = abc

(* C7: when opening the workbook fails, replace_string_in_book returns an  *)
(* empty result list and set_grid_size returns without raising; the        *)
(* failure does not reach the caller and no cell write, shape write,       *)
(* row/column resize, Save or Close is performed.                          *)
C7_OpenFailureSwallowed ==
    [][(pc # "done" /\ ret'.op \in {"replace", "set_grid_size"}
        /\ ret'.args.openFails) =>
          /\ ret'.status = "returned"
          /\ ret'.value = <<>>
          /\ Count(ret'.log, WriteCalls) = 0
          /\ disk' = disk]_vars

C7_Witness ==
    /\ ret.op = "replace" /\ ret.args.openFails
    /\ ret.args.search_string = foo /\ ret.args.replace_string = bar
    /\ \E it \in AllItems(disk) : TextOf(disk, it) = foobar

(* C4: with use_regex and exact_match both set, the search string is      *)
(* compiled as a regular-expression pattern anchored to the whole text: a  *)
(* cell or shape matches iff its entire stringified text is fully matched  *)
(* by the search string interpreted as a pattern.                          *)
FullMatch(toks, text) == MatchEnd(toks, text, 0) = Len(text)

C4_RegexExactFullMatch ==
    (ret.op = "search" /\ ret.status = "returned"
     /\ ret.args.use_regex /\ ret.args.exact_match) =>
        \A it \in AllItems(disk) :
            (RecordsAt(ret.value, disk[it.si].Name, LocationOf(disk, it)) # {})
            <=> FullMatch(re_compile(ret.args.search_string), TextOf(disk, it))

(* C6: with use_regex and exact_match off, replace_string_in_book sets     *)
(* every matching cell or shape to its original text with every occurrence *)
(* of the search string replaced by the replacement string ("foobar" with  *)
(* "foo" to "bar" becomes "barbar", recorded with old "foobar" and new     *)
(* "barbar"); with exact_match on, a cell whose text equals the search     *)
(* string is overwritten by the replacement string as a whole.             *)
barbar == bar \o bar

\* the occurrences of sub in text that a left-to-right pass replaces: the
\* occurrences that no earlier replaced occurrence overlaps
ReplacedAt(sub, text) ==
    LET occ == {p \in 1..(Len(text) + 1) :
                   /\ p + Len(sub) - 1 <= Len(text)
                   /\ SubSeq(text, p, p + Len(sub) - 1) = sub}
        taken[p \in 1..(Len(text) + 1)] ==
            /\ p \in occ
            /\ \A q \in 1..(p - 1) : (q > p - Len(sub)) => ~taken[q]
    IN {p \in 1..(Len(text) + 1) : taken[p]}

RECURSIVE Rebuild(_, _, _, _, _)
Rebuild(text, n, new, at, p) ==
    IF p > Len(text) THEN (IF p \in at THEN new ELSE <<>>)
    ELSE IF p \in at
         THEN IF n = 0 THEN new \o <<text[p]>> \o Rebuild(text, n, new, at, p + 1)
              ELSE new \o Rebuild(text, n, new, at, p + n)
         ELSE <<text[p]>> \o Rebuild(text, n, new, at, p + 1)

EveryOccurrenceReplaced(text, sub, new) ==
    Rebuild(text, Len(sub), new, ReplacedAt(sub, text), 1)

C6_LiteralReplace ==
    [][(pc # "done" /\ ret'.op = "replace" /\ ret'.status = "returned"
        /\ ~ret'.args.openFails /\ ~ret'.args.use_regex) =>
          LET s == ret'.args.search_string
              r == ret'.args.replace_string
              Rec(it) == <<disk[it.si].Name, LocationOf(disk, it),
                           TextOf(disk, it), TextOf(disk', it)>>
          IN \A it \in AllItems(disk) :
                LET old == TextOf(disk, it)
                    new == TextOf(disk', it)
                IN /\ (~ret'.args.exact_match /\ Occurs(s, old)) =>
                         new = EveryOccurrenceReplaced(old, s, r)
                   /\ (ret'.args.exact_match /\ old = s) => new = r
                   /\ (new # old) => Rec(it) \in Elems(ret'.value)
                   /\ (~ret'.args.exact_match /\ s = foo /\ r = bar /\ old = foobar) =>
                         /\ Raw(disk', it) = Str(barbar)
                         /\ <<disk[it.si].Name, LocationOf(disk, it), foobar, barbar>>
                               \in Elems(ret'.value)]_vars

C6_Witness ==
    /\ ret.op = "replace" /\ ret.status = "returned" /\ ~ret.args.openFails
    /\ ~ret.args.use_regex /\ ~ret.args.exact_match
    /\ ret.args.search_string = foo /\ ret.args.replace_string = bar
    /\ \E rec \in Elems(ret.value) : rec[3] = foobar /\ rec[4] = barbar
    /\ \E it \in AllItems(disk) : it.kind = "cell" /\ Raw(disk, it) = Str(barbar)

(* C8: sort_sheet returns a permutation of the workbook's sheet names in   *)
(* strict ascending order for 'asc' and strict descending order for        *)
(* 'desc', signals ValueError for any order value other than the two       *)
(* accepted ones, and never writes the order back to the file.             *)
\* x comes before y in case-sensitive lexicographic order
LexBefore(x, y) ==
    \E k \in 0..Len(x) :
        /\ k <= Len(y)
        /\ SubSeq(x, 1, k) = SubSeq(y, 1, k)
        /\ \/ (k = Len(x) /\ k < Len(y))
           \/ (k < Len(x) /\ k < Len(y) /\ Ord(x[k + 1]) < Ord(y[k + 1]))

SortedResult(value, names, descending) ==
    /\ Len(value) = Len(names)
    /\ Elems(value) = Elems(names)
    /\ \A i \in 1..(Len(value) - 1) :
          IF descending THEN LexBefore(value[i + 1], value[i])
          ELSE LexBefore(value[i], value[i + 1])

\* x spells y in some mix of upper and lower case (y in lower case)
SpelledAs(x, y) ==
    /\ Len(x) = Len(y)
    /\ \A i \in 1..Len(x) : x[i] = y[i] \/ Ord(x[i]) + 32 = Ord(y[i])

\* the claim as stated: only the values 'asc' and 'desc' are accepted
C8_OnlyTwoValuesAccepted ==
    [][(pc = "idle" /\ ret'.op = "sort_sheet") =>
          /\ disk' = disk
          /\ IF ret'.args.order \in {asc, desc}
             THEN /\ ret'.status = "returned"
                  /\ SortedResult(ret'.value, sheetnames(disk), ret'.args.order = desc)
             ELSE ret'.status = "raised"]_vars

\* C8 as amended: every upper/lower-case spelling of 'asc' and 'desc' is
\* accepted and sorts in that direction; ValueError is raised for exactly
\* the other order values
C8_SortSheet ==
    [][(pc = "idle" /\ ret'.op = "sort_sheet") =>
          /\ disk' = disk
          /\ Count(ret'.log, WriteCalls) = 0
          /\ IF SpelledAs(ret'.args.order, asc) \/ SpelledAs(ret'.args.order, desc)
             THEN /\ ret'.status = "returned"
                  /\ SortedResult(ret'.value, sheetnames(disk),
                                  SpelledAs(ret'.args.order, desc))
             ELSE ret'.status = "raised" /\ ret'.value = <<>>]_vars

C8_Witness ==
    /\ ret.op = "sort_sheet" /\ ret.status = "returned"
    /\ ret.args.order = <<"D", "e", "s", "c">>
    /\ Len(ret.value) = 3
    /\ ret.value # sheetnames(disk)
    /\ ret.value[1] = <<"a", "b">> /\ ret.value[3] = <<"A">>

(* C9: get_files_in_path returns exactly the paths of the files with a     *)
(* target extension: no entry starting with '~$', '.xlsm' entries only     *)
(* when xlsm_flg is set, entries of nested subdirectories only when        *)
(* sub_dir_flg is set.                                                     *)
RECURSIVE FilesUnder(_, _, _)
FilesUnder(node, path, nested) ==
    {Append(path, f) : f \in Elems(node.files)}
    \cup (IF nested
          THEN UNION {FilesUnder(node.dirs[i].node, Append(path, node.dirs[i].name), TRUE) :
                         i \in 1..Len(node.dirs)}
          ELSE {})

TargetFiles(node, path, nested, with_xlsm) ==
    {q \in FilesUnder(node, path, nested) :
        LET f == q[Len(q)] IN
        /\ EndsWith(f, xlsx) \/ (with_xlsm /\ EndsWith(f, xlsm))
        /\ ~StartsWith(f, tempMarker)}

C9_ExactlyTargetFiles ==
    (ret.op = "get_files_in_path") =>
        /\ Elems(ret.value)
              = TargetFiles(tree, search_path, ret.args.sub_dir_flg, ret.args.xlsm_flg)
        /\ Len(ret.value) = Cardinality(Elems(ret.value))

(* C10: Replace uses the same traversal and matching policy as Search: for *)
(* the same workbook, search string and flags, the records of              *)
(* replace_string_in_book projected to (sheet, location, original value)   *)
(* are an order-preserving subsequence of the records of                   *)
(* search_string_in_book, namely exactly those matches whose replacement   *)
(* changes the text; both lists follow sheets in workbook order, cells in  *)
(* row-major order, then shapes.                                           *)
\* the place of a record in the traversal: sheet, cells before shapes,
\* row, column
Rank(book, rec) ==
    LET si == CHOOSE i \in 1..Len(book) : book[i].Name = rec[1]
        it == CHOOSE x \in AllItems(book) : x.si = si /\ LocationOf(book, x) = rec[2]
    IN <<si, IF it.kind = "cell" THEN 0 ELSE 1, it.r, it.c>>

RankBefore(x, y) ==
    \E k \in 1..4 : x[k] < y[k] /\ \A j \in 1..(k - 1) : x[j] = y[j]

InTraversalOrder(book, records) ==
    \A i \in 1..(Len(records) - 1) :
        RankBefore(Rank(book, records[i]), Rank(book, records[i + 1]))

C10_ReplaceFollowsSearch ==
    (pc = "done" /\ ret.op = "replace" /\ ret.status = "returned"
     /\ ~ret.args.openFails /\ lastSearch.valid) =>
        LET projected == [i \in 1..Len(ret.value) |->
                             <<ret.value[i][1], ret.value[i][2], ret.value[i][3]>>]
            Changes(rec) ==
                \E full \in Elems(ret.value) :
                    /\ <<full[1], full[2], full[3]>> = rec
                    /\ full[4] # rec[3]
            Now(rec) ==
                LET si == CHOOSE i \in 1..Len(disk) : disk[i].Name = rec[1]
                    it == CHOOSE x \in AllItems(disk) :
                              x.si = si /\ LocationOf(disk, x) = rec[2]
                IN TextOf(disk, it)
        IN /\ projected = SelectSeq(lastSearch.value, LAMBDA rec : Now(rec) # rec[3])
           /\ \A rec \in Elems(lastSearch.value) : Changes(rec) <=> (Now(rec) # rec[3])
           /\ InTraversalOrder(disk, lastSearch.value)
           /\ InTraversalOrder(disk, projected)

C10_Witness ==
    /\ pc = "done" /\ ret.op = "replace" /\ ret.status = "returned"
    /\ ~ret.args.openFails /\ lastSearch.valid
    /\ ret.args.use_regex
    /\ Len(ret.value) >= 2
    /\ Len(ret.value) < Len(lastSearch.value)
    /\ \E i, j \in 1..Len(ret.value) : ret.value[i][2][1] = "shape" /\ ret.value[j][2][1] # "shape"

====
